---- MODULE Spec2Model ----
(***************************************************************************)
(* A model of subsearch.py: one run of the subdomain finder.  The main     *)
(* thread walks brute_force_subdomains, the four provider adapters and     *)
(* save_results; the ThreadPoolExecutor's workers run is_resolvable        *)
(* concurrently with it.  Strings are sequences of one-character strings,  *)
(* so that strip, split, sorting and the line format are computed.         *)
(***************************************************************************)
EXTENDS Integers, Sequences, FiniteSets, Bags, TLC

(* ------------------------------ bounds -------------------------------- *)
MaxLines == 2      \* lines of the wordlist file
MaxEntries == 2    \* entries of a provider's JSON array
MaxBodyLen == 2    \* characters of a generated HackerTarget body

(* ------------------------- program constants -------------------------- *)
max_workers == 10

(* ------------------------------ strings ------------------------------- *)
Range(s) == {s[i] : i \in DOMAIN s}

RECURSIVE SeqsUpTo(_, _)
SeqsUpTo(S, n) ==
  IF n = 0 THEN {<<>>}
  ELSE LET shorter == SeqsUpTo(S, n - 1)
       IN  shorter \cup {Append(s, x) : s \in {t \in shorter : Len(t) = n - 1}, x \in S}

\* Python's ord() on the characters the model uses.
Ord(c) ==
  CASE c = "\n" -> 10  [] c = " " -> 32  [] c = "," -> 44  [] c = "." -> 46
    [] c = "1" -> 49   [] c = "2" -> 50  [] c = "3" -> 51  [] c = "4" -> 52
    [] c = "5" -> 53   [] c = "6" -> 54  [] c = "7" -> 55  [] c = "8" -> 56
    [] c = "A" -> 65   [] c = "a" -> 97  [] c = "b" -> 98  [] c = "c" -> 99
    [] c = "e" -> 101  [] c = "l" -> 108 [] c = "m" -> 109 [] c = "o" -> 111
    [] c = "p" -> 112  [] c = "x" -> 120 [] c = "z" -> 122

\* str.__lt__: comparison by code point, a proper prefix sorting first.
StrLess(s, t) ==
  \E k \in 1..(Len(t)) :
    /\ \A j \in 1..(k - 1) : j <= Len(s) /\ s[j] = t[j]
    /\ \/ k = Len(s) + 1
       \/ k <= Len(s) /\ Ord(s[k]) < Ord(t[k])

\* The characters str.strip() removes, among those the model uses.
Whitespace == {" ", "\n"}

RECURSIVE LStrip(_)
LStrip(s) == IF s # <<>> /\ Head(s) \in Whitespace THEN LStrip(Tail(s)) ELSE s

RECURSIVE RStrip(_)
RStrip(s) ==
  IF s # <<>> /\ s[Len(s)] \in Whitespace THEN RStrip(SubSeq(s, 1, Len(s) - 1)) ELSE s

\* str.strip()
Strip(s) == RStrip(LStrip(s))

\* str.replace(c, "")
RECURSIVE RemoveChar(_, _)
RemoveChar(s, c) ==
  IF s = <<>> THEN <<>>
  ELSE IF Head(s) = c THEN RemoveChar(Tail(s), c)
       ELSE <<Head(s)>> \o RemoveChar(Tail(s), c)

\* str.split(sep) for a one-character separator: k separators give k + 1
\* parts, so the empty string splits into one empty part.
RECURSIVE Split(_, _)
Split(s, sep) ==
  IF \A i \in DOMAIN s : s[i] # sep THEN <<s>>
  ELSE LET k == CHOOSE i \in DOMAIN s :
                  s[i] = sep /\ \A j \in 1..(i - 1) : s[j] # sep
       IN  <<SubSeq(s, 1, k - 1)>> \o Split(SubSeq(s, k + 1, Len(s)), sep)

\* sorted(): the members of a set of strings in ascending order.
RECURSIVE Sorted(_)
Sorted(S) ==
  IF S = {} THEN <<>>
  ELSE LET m == CHOOSE x \in S : \A y \in S \ {x} : StrLess(x, y)
       IN  <<m>> \o Sorted(S \ {m})

(* --------------------------- input universe --------------------------- *)
Domains == {<<"e">>}
Host_ae == <<"a", ".", "e">>
Host_Ae == <<"A", ".", "e">>
Host_nl == <<"b", "\n", "a">>

\* Lines as file iteration yields them, terminator included.
RawLines == {<<" ", "a", "\n">>, <<"\n">>}
WordLists == SeqsUpTo(RawLines, MaxLines)

\* What dns.resolver.resolve does with a query: an answer, or one of its
\* exceptions (NoNameservers stands for every fault line 20 does not name).
DnsOutcomes == {"answer", "NXDOMAIN", "NoAnswer", "LifetimeTimeout", "NoNameservers"}

OldFiles == {<<"none">>, <<"file", <<"z", "\n">>>>}

(* ------------------------------- state -------------------------------- *)
VARIABLES
  domain,            \* args.domain
  wordlist,          \* the wordlist file: absent, or its lines
  outfile0,          \* history: the output file as the run found it
  pc,                \* the main thread's position
  phase,             \* the phase the main thread is in
  phases,            \* history: the phases in the order they started
  exc,               \* the exception that ended the run, or "None"
  raisedIn,          \* the function that raised it
  lines,             \* the wordlist's lines, as read at line 26
  subdomains,        \* brute_force_subdomains: the candidate list
  future,            \* the futures submitted, in submission order
  yielded,           \* the futures as_completed has yielded
  found_subdomains,  \* brute_force_subdomains: the result list
  work_queue,        \* executor: work items not yet picked up
  running,           \* executor: work items a worker is running
  calls,             \* history: bag of the is_resolvable calls made
  requests,          \* history: the HTTP GETs issued, in order
  non200,            \* history: the adapters whose GET got a status other than 200
  response,          \* adapter: the response of its GET
  adapter_subdomains,\* adapter: its local set `subdomains`
  returned,          \* history: what each phase returned
  all_subdomains,    \* enumerate_subdomains: the result set
  outfile,           \* the output file: absent, or its content
  to_write           \* save_results: the sorted members still to write

vars == <<domain, wordlist, outfile0, non200, pc, phase, phases, exc, raisedIn, lines, subdomains, future,
          yielded, found_subdomains, work_queue, running, calls, requests,
          response, adapter_subdomains, returned, all_subdomains, outfile,
          to_write>>

env == <<domain, wordlist, outfile0>>
bfLocals == <<lines, subdomains, future, yielded, found_subdomains>>
pool == <<work_queue, running, calls>>
adapterLocals == <<requests, non200, response, adapter_subdomains>>
writer == <<outfile, to_write>>

NoResponse == [kind |-> "none"]

Init ==
  /\ domain \in Domains
  /\ wordlist \in {<<"none">>} \cup {<<"file", wl>> : wl \in WordLists}
  /\ pc = "brute"
  /\ phase = "brute"
  /\ phases = <<>>
  /\ exc = "None"
  /\ raisedIn = "None"
  /\ lines = <<>>
  /\ subdomains = <<>>
  /\ future = <<>>
  /\ yielded = {}
  /\ found_subdomains = <<>>
  /\ work_queue = <<>>
  /\ running = {}
  /\ calls = EmptyBag
  /\ requests = <<>>
  /\ response = NoResponse
  /\ adapter_subdomains = {}
  /\ returned = <<>>
  /\ all_subdomains = {}
  /\ outfile \in OldFiles
  /\ outfile0 = outfile
  /\ non200 = {}
  /\ to_write = <<>>

(* ------------------------------ phases -------------------------------- *)
Adapters == {"crtsh", "hackertarget", "alienvault", "urlscan"}
PhaseOrder == <<"brute", "crtsh", "hackertarget", "alienvault", "urlscan", "write">>

\* Mutant: the HackerTarget and AlienVault calls exchanged.
PhaseAfterSwapped(p) ==
  CASE p = "brute" -> "crtsh"
    [] p = "crtsh" -> "alienvault"
    [] p = "alienvault" -> "hackertarget"
    [] p = "hackertarget" -> "urlscan"
    [] p = "urlscan" -> "write"

\* The statement that follows a phase's call in enumerate_subdomains and
\* __main__.
PhaseAfter(p) ==
  CASE p = "brute" -> "crtsh"
    [] p = "crtsh" -> "hackertarget"
    [] p = "hackertarget" -> "alienvault"
    [] p = "alienvault" -> "urlscan"
    [] p = "urlscan" -> "write"

PcOf(p) == IF p = "write" THEN "save_open" ELSE "fetch"

\* An uncaught exception: the traceback ends the process.
Crash(e, f) ==
  /\ pc' = "crashed"
  /\ exc' = e
  /\ raisedIn' = f

(* --------------------------- is_resolvable ---------------------------- *)
\* The except clause of is_resolvable.
ResolverCatches(e) == e \in {"NXDOMAIN", "NoAnswer", "LifetimeTimeout"}

\* The outcome of is_resolvable for what the DNS query did: a return value
\* or an exception left in the future.
is_resolvable(o) ==
  IF o = "answer" THEN [exception |-> "None", result |-> TRUE]
  ELSE IF ResolverCatches(o) THEN [exception |-> "None", result |-> FALSE]
  ELSE [exception |-> o, result |-> FALSE]

(* ----------------------- brute_force_subdomains ----------------------- *)
\* Mutant: the candidates collected into a structure keyed by hostname, a
\* repeated candidate kept once.
RECURSIVE Deduplicated(_)
Deduplicated(s) ==
  IF s = <<>> THEN <<>>
  ELSE LET front == Deduplicated(SubSeq(s, 1, Len(s) - 1))
       IN  IF s[Len(s)] \in Range(front) THEN front ELSE Append(front, s[Len(s)])

CandidatesDeduplicated(ls, d) ==
  Deduplicated([i \in DOMAIN ls |-> Strip(ls[i]) \o <<".">> \o d])

\* [line.strip() + "." + domain for line in file]
Candidates(ls, d) == [i \in DOMAIN ls |-> Strip(ls[i]) \o <<".">> \o d]

\* open(WORDLIST) succeeds: the candidates are built from the file's lines.
BfOpen ==
  /\ pc = "brute"
  /\ wordlist[1] = "file"
  /\ lines' = wordlist[2]
  /\ subdomains' = Candidates(wordlist[2], domain)
  /\ phases' = Append(phases, "brute")
  /\ pc' = "submit"
  /\ UNCHANGED <<env, phase, exc, raisedIn, future, yielded, found_subdomains,
                 pool, adapterLocals, returned, all_subdomains, writer>>

\* Mutant: the failed open caught and taken for an empty wordlist.
BfOpenFailSwallowed ==
  /\ pc = "brute"
  /\ wordlist[1] = "none"
  /\ phases' = Append(phases, "brute")
  /\ pc' = "submit"
  /\ UNCHANGED <<env, phase, exc, raisedIn, bfLocals, pool, adapterLocals,
                 returned, all_subdomains, writer>>

\* open(WORDLIST) raises: nothing catches it.
BfOpenFail ==
  /\ pc = "brute"
  /\ wordlist[1] = "none"
  /\ phases' = Append(phases, "brute")
  /\ Crash("FileNotFoundError", "brute_force_subdomains")
  /\ UNCHANGED <<env, phase, bfLocals, pool, adapterLocals, returned,
                 all_subdomains, writer>>

\* executor.submit(is_resolvable, sub) for the next candidate.
Submit ==
  /\ pc = "submit"
  /\ Len(future) < Len(subdomains)
  /\ LET i == Len(future) + 1
     IN  /\ future' = Append(future, [state |-> "PENDING", exception |-> "None",
                                      result |-> FALSE])
         /\ work_queue' = Append(work_queue, [id |-> i, arg |-> subdomains[i]])
  /\ UNCHANGED <<env, pc, phase, phases, exc, raisedIn, lines, subdomains,
                 yielded, found_subdomains, running, calls, adapterLocals,
                 returned, all_subdomains, writer>>

\* The dict comprehension is complete; the as_completed loop begins.
SubmitDone ==
  /\ pc = "submit"
  /\ Len(future) = Len(subdomains)
  /\ pc' = "collect"
  /\ UNCHANGED <<env, phase, phases, exc, raisedIn, bfLocals, pool,
                 adapterLocals, returned, all_subdomains, writer>>

\* A worker takes the oldest work item and calls is_resolvable on it.
WorkerStart ==
  /\ work_queue # <<>>
  /\ Cardinality(running) < max_workers
  /\ LET item == Head(work_queue)
     IN  /\ running' = running \cup {item}
         /\ calls' = calls (+) SetToBag({item})
         /\ future' = IF item.id \in DOMAIN future
                      THEN [future EXCEPT ![item.id].state = "RUNNING"]
                      ELSE future
  /\ work_queue' = Tail(work_queue)
  /\ UNCHANGED <<env, pc, phase, phases, exc, raisedIn, lines, subdomains,
                 yielded, found_subdomains, adapterLocals, returned,
                 all_subdomains, writer>>

\* The DNS query of a running check ends; its future is set.
WorkerFinish ==
  \E item \in running, o \in DnsOutcomes :
    /\ running' = running \ {item}
    /\ future' = IF item.id \in DOMAIN future
                 THEN [future EXCEPT ![item.id] =
                         [state |-> "FINISHED",
                          exception |-> is_resolvable(o).exception,
                          result |-> is_resolvable(o).result]]
                 ELSE future
    /\ UNCHANGED <<env, pc, phase, phases, exc, raisedIn, lines, subdomains,
                   yielded, found_subdomains, work_queue, calls, adapterLocals,
                   returned, all_subdomains, writer>>

\* Mutant: the append made whatever the check returned.
AccumulateAlways(found, sub, result) == Append(found, sub)

\* if future.result(): found_subdomains.append(sub)
Accumulate(found, sub, result) == IF result THEN Append(found, sub) ELSE found

\* One iteration of the as_completed loop: a finished future not yet
\* yielded; future.result() returns or re-raises.
Collect ==
  /\ pc = "collect"
  /\ \E i \in DOMAIN future \ yielded :
       /\ future[i].state = "FINISHED"
       /\ yielded' = yielded \cup {i}
       /\ IF future[i].exception # "None"
          THEN /\ pc' = "unwind"
               /\ exc' = future[i].exception
               /\ raisedIn' = "is_resolvable"
               /\ UNCHANGED found_subdomains
          ELSE /\ found_subdomains' =
                    Accumulate(found_subdomains, subdomains[i], future[i].result)
               /\ UNCHANGED <<pc, exc, raisedIn>>
  /\ UNCHANGED <<env, phase, phases, lines, subdomains, future, pool,
                 adapterLocals, returned, all_subdomains, writer>>

\* as_completed is exhausted: every future has been yielded.
CollectDone ==
  /\ pc = "collect"
  /\ yielded = DOMAIN future
  /\ pc' = "shutdown"
  /\ UNCHANGED <<env, phase, phases, exc, raisedIn, bfLocals, pool,
                 adapterLocals, returned, all_subdomains, writer>>

\* executor.__exit__: shutdown(wait=True) joins the workers, which first
\* run every work item still queued.
PoolDrained == work_queue = <<>> /\ running = {}

\* Mutant: hostnames lower-cased as they are merged.
UpdateCaseFolded(S, T) ==
  S \cup {[i \in DOMAIN t |-> IF t[i] = "A" THEN "a" ELSE t[i]] : t \in T}

\* set.update
Update(S, T) == S \cup T

\* The with block is left normally; brute_force_subdomains returns and
\* enumerate_subdomains merges the list.
BfReturn ==
  /\ pc = "shutdown"
  /\ PoolDrained
  /\ returned' = ("brute" :> found_subdomains)
  /\ all_subdomains' = Update(all_subdomains, Range(found_subdomains))
  /\ phase' = PhaseAfter("brute")
  /\ pc' = PcOf(PhaseAfter("brute"))
  /\ UNCHANGED <<env, phases, exc, raisedIn, bfLocals, pool, adapterLocals,
                 writer>>

\* The with block is left by the exception of future.result(): the
\* executor is shut down first, then the exception ends the run.
BfUnwind ==
  /\ pc = "unwind"
  /\ PoolDrained
  /\ pc' = "crashed"
  /\ UNCHANGED <<env, phase, phases, exc, raisedIn, bfLocals, pool,
                 adapterLocals, returned, all_subdomains, writer>>

(* ------------------------- provider responses ------------------------- *)
\* requests.get either raises (a transport failure) or returns a response
\* with a status and a body; a JSON body is given as what response.json()
\* makes of it.
TransportError == [kind |-> "error"]
Http(status, body) == [kind |-> "http", status |-> status, body |-> body]
InvalidJson == [valid |-> FALSE]
Json(v) == [valid |-> TRUE, value |-> v]

\* The entries a provider's array is drawn from, with and without the
\* expected field.
CrtshEntries == {[name_value |-> Host_ae \o <<"\n">>], [id |-> <<"1">>]}
AlienvaultEntries ==
  {[hostname |-> Host_ae], [hostname |-> Host_nl], [address |-> <<"1">>]}
UrlscanEntries == {[page |-> [domain |-> Host_Ae]], [page |-> [url |-> <<"x">>]]}

\* The body of the HackerTarget example: two host,address lines, each
\* newline-terminated.
Host_a_example == <<"a", ".", "e", "x", "a", "m", "p", "l", "e", ".", "c", "o", "m">>
Host_b_example == <<"b", ".", "e", "x", "a", "m", "p", "l", "e", ".", "c", "o", "m">>
ExampleBody ==
  Host_a_example \o <<",", "1", ".", "2", ".", "3", ".", "4", "\n">> \o
  Host_b_example \o <<",", "5", ".", "6", ".", "7", ".", "8", "\n">>
HackertargetBodies ==
  SeqsUpTo({"a", "\n"}, MaxBodyLen) \cup {ExampleBody, <<"a", ",", "1">>, <<",", "a">>}

Responses(a) ==
  CASE a = "crtsh" ->
         {TransportError, Http(404, Json(<<[name_value |-> Host_ae]>>)), Http(200, InvalidJson)}
         \cup {Http(200, Json(es)) : es \in SeqsUpTo(CrtshEntries, MaxEntries)}
    [] a = "hackertarget" ->
         {TransportError, Http(404, <<"a">>)}
         \cup {Http(200, b) : b \in HackertargetBodies}
    [] a = "alienvault" ->
         {TransportError, Http(404, Json([passive_dns |-> <<[hostname |-> Host_ae]>>])),
          Http(200, InvalidJson), Http(200, Json([detail |-> <<"x">>]))}
         \cup {Http(200, Json([passive_dns |-> es])) :
                 es \in SeqsUpTo(AlienvaultEntries, MaxEntries)}
    [] a = "urlscan" ->
         {TransportError, Http(404, Json([results |-> <<[page |-> [domain |-> Host_ae]]>>])),
          Http(200, InvalidJson), Http(200, Json([total |-> <<"1">>])),
          Http(200, Json([results |-> <<[task |-> <<"1">>]>>]))}
         \cup {Http(200, Json([results |-> es])) :
                 es \in SeqsUpTo(UrlscanEntries, MaxEntries)}

(* ------------------------------ adapters ------------------------------ *)
Returns(S) == [exception |-> "None", subdomains |-> S]
Raises(e) == [exception |-> e, subdomains |-> {}]

\* except requests.RequestException: the transport failures of
\* requests.get, and the JSONDecodeError response.json() raises, which
\* requests derives from RequestException.
AdapterCatches(e) == e \in {"ConnectionError", "JSONDecodeError"}

\* The subscript entry[key] of a JSON object.
HasKey(entry, key) == key \in DOMAIN entry

\* The body of crtsh_enum's try block on a 200 response.
crtsh_parse(body) ==
  IF ~body.valid THEN Raises("JSONDecodeError")
  ELSE IF \E i \in DOMAIN body.value : ~HasKey(body.value[i], "name_value")
       THEN Raises("KeyError")
       ELSE Returns({Strip(RemoveChar(body.value[i].name_value, "\n")) :
                       i \in DOMAIN body.value})

\* The body of hackertarget_enum's try block on a 200 response.
hackertarget_parse(body) ==
  LET results == Split(body, "\n")
      parts(i) == Split(results[i], ",")
  IN  Returns({parts(i)[1] : i \in {j \in DOMAIN results : Len(parts(j)) > 0}})

\* The body of alienvault_enum's try block on a 200 response.
alienvault_parse(body) ==
  IF ~body.valid THEN Raises("JSONDecodeError")
  ELSE LET entries == IF HasKey(body.value, "passive_dns")
                      THEN body.value.passive_dns ELSE <<>>
       IN  IF \E i \in DOMAIN entries : ~HasKey(entries[i], "hostname")
           THEN Raises("KeyError")
           ELSE Returns({entries[i].hostname : i \in DOMAIN entries})

\* result.get("page", {}).get("domain", "")
PageDomain(result) ==
  IF HasKey(result, "page") /\ HasKey(result.page, "domain")
  THEN result.page.domain ELSE <<>>

\* The body of urlscan_enum's try block on a 200 response.
urlscan_parse(body) ==
  IF ~body.valid THEN Raises("JSONDecodeError")
  ELSE LET results == IF HasKey(body.value, "results")
                      THEN body.value.results ELSE <<>>
       IN  Returns({PageDomain(results[i]) : i \in DOMAIN results} \ {<<>>})

Parse(a, body) ==
  CASE a = "crtsh" -> crtsh_parse(body)
    [] a = "hackertarget" -> hackertarget_parse(body)
    [] a = "alienvault" -> alienvault_parse(body)
    [] a = "urlscan" -> urlscan_parse(body)

\* One adapter call, from the GET to the return or the uncaught exception.
AdapterCall(a, resp) ==
  IF resp.kind = "error"
  THEN IF AdapterCatches("ConnectionError") THEN Returns({}) ELSE Raises("ConnectionError")
  ELSE IF resp.status # 200 THEN Returns({})
  ELSE LET r == Parse(a, resp.body)
       IN  IF r.exception # "None" /\ AdapterCatches(r.exception)
           THEN Returns({}) ELSE r

\* The adapter of the current phase issues its GET and runs to its return
\* statement, or raises.
Fetch(a) ==
  /\ pc = "fetch"
  /\ phase = a
  /\ phases' = Append(phases, a)
  /\ requests' = Append(requests, a)
  /\ \E resp \in Responses(a) :
       /\ response' = resp
       /\ non200' = IF resp.kind = "http" /\ resp.status # 200
                     THEN non200 \cup {a} ELSE non200
       /\ adapter_subdomains' = AdapterCall(a, resp).subdomains
       /\ IF AdapterCall(a, resp).exception = "None"
          THEN pc' = "return" /\ UNCHANGED <<exc, raisedIn>>
          ELSE Crash(AdapterCall(a, resp).exception, a)
  /\ UNCHANGED <<env, phase, bfLocals, pool, returned, all_subdomains, writer>>

\* return list(subdomains), and the all_subdomains.update of the caller;
\* the adapter's locals end with its frame.
AdapterReturn(a) ==
  /\ pc = "return"
  /\ phase = a
  /\ returned' = returned @@ (a :> adapter_subdomains)
  /\ all_subdomains' = Update(all_subdomains, adapter_subdomains)
  /\ phase' = PhaseAfter(a)
  /\ pc' = PcOf(PhaseAfter(a))
  /\ response' = NoResponse
  /\ adapter_subdomains' = {}
  /\ UNCHANGED <<env, phases, exc, raisedIn, bfLocals, pool, requests, non200,
                 writer>>

(* ---------------------------- save_results ---------------------------- *)
\* open(output_file, "w") creates or truncates the file.
SaveOpen ==
  /\ pc = "save_open"
  /\ phases' = Append(phases, "write")
  /\ outfile' = <<"file", <<>>>>
  /\ to_write' = Sorted(all_subdomains)
  /\ pc' = "save_write"
  /\ UNCHANGED <<env, phase, exc, raisedIn, bfLocals, pool, adapterLocals,
                 returned, all_subdomains>>

\* open(output_file, "w") raises: the path is not writable.
SaveOpenFail ==
  /\ pc = "save_open"
  /\ phases' = Append(phases, "write")
  /\ Crash("PermissionError", "save_results")
  /\ UNCHANGED <<env, phase, bfLocals, pool, adapterLocals, returned,
                 all_subdomains, writer>>

\* file.write(sub + "\n") for the next member.
SaveWrite ==
  /\ pc = "save_write"
  /\ to_write # <<>>
  /\ outfile' = <<"file", outfile[2] \o Head(to_write) \o <<"\n">>>>
  /\ to_write' = Tail(to_write)
  /\ UNCHANGED <<env, pc, phase, phases, exc, raisedIn, bfLocals, pool,
                 adapterLocals, returned, all_subdomains>>

\* The loop is over: the file is closed and save_results returns.
SaveClose ==
  /\ pc = "save_write"
  /\ to_write = <<>>
  /\ pc' = "done"
  /\ UNCHANGED <<env, phase, phases, exc, raisedIn, bfLocals, pool,
                 adapterLocals, returned, all_subdomains, writer>>

Next ==
  \/ BfOpen
  \/ BfOpenFail
  \/ Submit
  \/ SubmitDone
  \/ WorkerStart
  \/ WorkerFinish
  \/ Collect
  \/ CollectDone
  \/ BfReturn
  \/ BfUnwind
  \/ \E a \in Adapters : Fetch(a)
  \/ \E a \in Adapters : AdapterReturn(a)
  \/ SaveOpen
  \/ SaveOpenFail
  \/ SaveWrite
  \/ SaveClose

Spec == Init /\ [][Next]_vars

(* ============================== claims ================================ *)
\* The lines of a text file: the runs of characters that end at each "\n",
\* and a last unterminated run if the content does not end with "\n".
FileLines(content) ==
  LET parts == Split(content, "\n")
  IN  IF parts[Len(parts)] = <<>> THEN SubSeq(parts, 1, Len(parts) - 1) ELSE parts

SeqToBag(s) == [x \in Range(s) |-> Cardinality({i \in DOMAIN s : s[i] = x})]

\* s is line without its leading and trailing whitespace.
IsStripped(s, line) ==
  \E i \in 1..(Len(line) + 1), j \in 0..Len(line) :
    /\ s = SubSeq(line, i, j)
    /\ \A k \in 1..(i - 1) : line[k] \in Whitespace
    /\ \A k \in (j + 1)..Len(line) : line[k] \in Whitespace
    /\ s # <<>> => s[1] \notin Whitespace /\ s[Len(s)] \notin Whitespace

\* What a phase contributed, as a set.
Contribution(p) == IF p = "brute" THEN Range(returned[p]) ELSE returned[p]

EnumerateReturned == DOMAIN returned = {"brute"} \cup Adapters
BruteReturned == "brute" \in DOMAIN returned
BruteOver == BruteReturned \/ (pc = "crashed" /\ raisedIn = "is_resolvable")

\* A response the provider's schema cannot parse: invalid JSON, or an entry
\* without the field the adapter subscripts.
Unparsable(a, body) ==
  CASE a = "hackertarget" -> FALSE
    [] a = "urlscan" -> ~body.valid
    [] a = "crtsh" ->
         \/ ~body.valid
         \/ \E i \in DOMAIN body.value : "name_value" \notin DOMAIN body.value[i]
    [] a = "alienvault" ->
         \/ ~body.valid
         \/ /\ "passive_dns" \in DOMAIN body.value
            /\ \E i \in DOMAIN body.value.passive_dns :
                 "hostname" \notin DOMAIN body.value.passive_dns[i]

FailedFetch(a, resp) ==
  \/ resp.kind = "error"
  \/ resp.kind = "http" /\ resp.status # 200
  \/ resp.kind = "http" /\ resp.status = 200 /\ Unparsable(a, resp.body)

\* Supporting fact: a transport failure, a non-200 status and invalid JSON
\* each leave the adapter at its return statement with the empty set.
AdapterAbsorbsTransportStatusAndJson ==
  \A a \in Adapters :
    (/\ phase = a
     /\ \/ response.kind = "error"
        \/ response.kind = "http" /\ response.status # 200
        \/ response.kind = "http" /\ a # "hackertarget" /\ ~response.body.valid)
      => (pc = "return" /\ adapter_subdomains = {} /\ exc = "None")

\* Supporting fact: when no member of the result set holds a newline, the
\* file save_results leaves has the members as its lines, strictly
\* ascending, one line each.
SaveResultsOnNewlineFreeSets ==
  (pc = "done" /\ \A h \in all_subdomains : "\n" \notin Range(h)) =>
    LET ls == FileLines(outfile[2])
    IN  /\ \A i \in 1..(Len(ls) - 1) : StrLess(ls[i], ls[i + 1])
        /\ Range(ls) = all_subdomains
        /\ Len(ls) = Cardinality(all_subdomains)

\* C1: whenever an adapter's GET fails in transport, gets a non-200 status
\* or gets a 200 body its schema cannot parse, the adapter reaches its
\* return statement with the empty set and raises nothing.
C1_AdapterFailureReturnsEmpty ==
  \A a \in Adapters :
    (phase = a /\ FailedFetch(a, response)) =>
      (pc = "return" /\ adapter_subdomains = {} /\ exc = "None")

\* C2: every finished resolution check holds a boolean, none holds an
\* exception, and is_resolvable never ends the run.
C2_ResolverNeverRaises ==
  /\ \A i \in DOMAIN future :
       future[i].state = "FINISHED" => future[i].exception = "None"
  /\ raisedIn # "is_resolvable"

\* C3: the result set is at every moment the union of what the phases
\* returned so far, and once all five returned it is the union of the five
\* contributions, members compared as exact strings.
C3_ResultIsUnionOfPhases ==
  /\ all_subdomains = UNION {Contribution(p) : p \in DOMAIN returned}
  /\ pc \in {"save_open", "save_write", "done"} =>
       /\ EnumerateReturned
       /\ \A h \in all_subdomains :
            h \in Range(returned["brute"]) \/ \E a \in Adapters : h \in returned[a]
       /\ \A a \in Adapters : returned[a] \subseteq all_subdomains
       /\ Range(returned["brute"]) \subseteq all_subdomains

\* C3 witness: a finished run in which brute force returned a.e twice,
\* crt.sh returned a.e again, and urlscan returned A.e, all kept apart.
C3_Witness ==
  /\ pc = "done"
  /\ returned["brute"] = <<Host_ae, Host_ae>>
  /\ Host_ae \in returned["crtsh"]
  /\ Host_Ae \in returned["urlscan"]
  /\ {Host_ae, Host_Ae} \subseteq all_subdomains

\* C4: after save_results completes, the file's lines are strictly
\* ascending and are, one line per member, the members of the result set.
C4_FileIsSortedResultSet ==
  pc = "done" =>
    LET ls == FileLines(outfile[2])
    IN  /\ outfile[1] = "file"
        /\ \A i \in 1..(Len(ls) - 1) : StrLess(ls[i], ls[i + 1])
        /\ Range(ls) = all_subdomains
        /\ Len(ls) = Cardinality(all_subdomains)

\* C5: an adapter that got a non-200 status contributes nothing, no later
\* phase ends the run before the write stage, and the lines written are the
\* union of what the other phases returned.
C5_Non200DoesNotStopTheRun ==
  \A a \in non200 :
    /\ a \in DOMAIN returned => returned[a] = {}
    /\ ~(pc = "crashed" /\ raisedIn \in Adapters)
    /\ pc = "done" =>
         Range(FileLines(outfile[2])) =
           UNION {Contribution(p) : p \in DOMAIN returned \ {a}}

\* C6: no check is ever issued twice, and once brute force is over the
\* checks issued are exactly one per wordlist line, the i-th against the
\* i-th line without its surrounding whitespace, then ".", then the domain.
C6_OneCheckPerLine ==
  /\ \A c \in BagToSet(calls) : CopiesIn(c, calls) = 1
  /\ BruteOver =>
       /\ BagCardinality(calls) = Len(lines)
       /\ lines = wordlist[2]
       /\ \A i \in DOMAIN lines :
            \E c \in BagToSet(calls) :
              /\ c.id = i
              /\ \E s \in {SubSeq(lines[i], m, n) :
                             m \in 1..(Len(lines[i]) + 1), n \in 0..Len(lines[i])} :
                   IsStripped(s, lines[i]) /\ c.arg = s \o <<".">> \o domain

\* C6 witness: brute force returned over a wordlist holding the same line
\* twice, and two checks were issued.
C6_Witness ==
  /\ BruteReturned
  /\ Len(lines) = 2
  /\ lines[1] = lines[2]
  /\ lines[1] # <<"\n">>
  /\ BagCardinality(calls) = 2

\* C7: the phases start in the fixed order, each after the one before it
\* has returned; no GET is issued and nothing later runs while a resolution
\* check is queued or running; the write starts after urlscan returned.
C7_PhasesInOrder ==
  /\ Len(phases) <= Len(PhaseOrder)
  /\ \A i \in DOMAIN phases : phases[i] = PhaseOrder[i]
  /\ \A i \in DOMAIN phases : i > 1 => PhaseOrder[i - 1] \in DOMAIN returned
  /\ requests = [i \in 1..Len(requests) |-> PhaseOrder[i + 1]]
  /\ (requests # <<>> \/ pc \in {"fetch", "return", "save_open", "save_write", "done"}) =>
       /\ work_queue = <<>> /\ running = {}
       /\ Len(future) = Len(subdomains)
       /\ \A i \in DOMAIN future : future[i].state = "FINISHED"

\* C7 witness: a finished run whose brute force ran two checks and whose
\* six phases all started.
C7_Witness ==
  /\ pc = "done"
  /\ phases = PhaseOrder
  /\ Len(requests) = 4
  /\ Len(future) = 2

\* C8: on a 200 response hackertarget_enum holds exactly the first
\* comma-delimited fields of the body's non-empty lines, never the empty
\* string, and for the example body exactly its two hostnames.
C8_HackertargetSkipsEmptyLines ==
  (phase = "hackertarget" /\ response.kind = "http" /\ response.status = 200) =>
    /\ adapter_subdomains =
         {Split(l, ",")[1] : l \in Range(Split(response.body, "\n")) \ {<<>>}}
    /\ <<>> \notin adapter_subdomains
    /\ response.body = ExampleBody =>
         adapter_subdomains = {Host_a_example, Host_b_example}

\* C9: with no wordlist file the run ends in brute force: no check is
\* submitted or issued, no GET is issued, and the output file stays as the
\* run found it.
C9_MissingWordlistAborts ==
  wordlist[1] = "none" =>
    /\ pc \in {"brute", "crashed"}
    /\ pc = "crashed" => exc = "FileNotFoundError"
    /\ future = <<>> /\ work_queue = <<>> /\ running = {}
    /\ calls = EmptyBag
    /\ requests = <<>>
    /\ outfile = outfile0
    /\ returned = <<>>

\* C9 witness: the run ended on the missing wordlist with an older output
\* file in place.
C9_Witness ==
  /\ wordlist[1] = "none"
  /\ pc = "crashed"
  /\ exc = "FileNotFoundError"
  /\ outfile0[1] = "file"

\* C10: when brute force has returned, every submitted check has finished
\* and the list returned holds, as a multiset, exactly the candidates whose
\* check returned true, one per wordlist occurrence.
C10_ReturnsTheResolvedCandidates ==
  BruteReturned =>
    /\ Len(future) = Len(lines)
    /\ \A i \in DOMAIN future :
         future[i].state = "FINISHED" /\ future[i].exception = "None"
    /\ work_queue = <<>> /\ running = {}
    /\ returned["brute"] = found_subdomains
    /\ LET resolved == {i \in DOMAIN future : future[i].result}
       IN  /\ Len(returned["brute"]) = Cardinality(resolved)
           /\ \A x \in Range(subdomains) \cup Range(returned["brute"]) :
                Cardinality({k \in DOMAIN returned["brute"] : returned["brute"][k] = x})
                  = Cardinality({i \in resolved : subdomains[i] = x})

\* C10 witness: brute force returned one of two candidates, the other's
\* check having returned false.
C10_Witness ==
  /\ BruteReturned
  /\ Len(future) = 2
  /\ future[1].result /\ ~future[2].result
  /\ returned["brute"] = <<subdomains[1]>>
  /\ subdomains[1] # subdomains[2]
====
